---------------------------- MODULE Spec2Model ----------------------------
(***************************************************************************)
(* Order execution and ledger reconciliation of h32109/stock-service.      *)
(*                                                                         *)
(* The model covers the Order Gateway (trader/order/service.py), the Order *)
(* Processor and Order Command Handler (trader/context/kafka/ctx.py), the  *)
(* cash operations of trader/user/service.py and the transaction scope of  *)
(* trader/globals.py and trader/context/db/ctx.py.                         *)
(*                                                                         *)
(* Money is counted in the smallest unit of Numeric(.., 2), so Decimal     *)
(* arithmetic on prices with at most two fractional digits is integer      *)
(* arithmetic.  Identifiers produced by uuid4() are the positions of the   *)
(* rows in the orders table.                                               *)
(*                                                                         *)
(* Reading of the source.  The bodies of the functions are modelled as     *)
(* they are written, with names read as the rest of the repository reads   *)
(* them: `select` in kafka/ctx.py is the SQLAlchemy query constructor      *)
(* (line 5 imports the standard library's select.select instead), the      *)
(* AccountTransaction rows built in kafka/ctx.py carry related_order_id    *)
(* (a column user/model.py does not declare), and Decimal balances accept  *)
(* the float amounts of deposit and withdraw.  Each of the three raises    *)
(* TypeError in a running build before any of the logic modelled here is   *)
(* reached; they are recorded with the claims they touch.  The response    *)
(* built by the create operations reads order.created_dt, a server default *)
(* that is loaded when the row is flushed; the model takes it as loaded.   *)
(***************************************************************************)
EXTENDS Integers, Sequences, FiniteSets

(***************************************************************************)
(* Bounds of the model.                                                    *)
(***************************************************************************)
MaxOrders == 2
MaxHistory == 7
MaxLedger == 1
InitBalance == 4
MaxSessions == 2
MaxTxRows == 4
MaxMessages == 2
MaxFailures == 1
MaxConsumerOrders == 1
MaxContents == 3

Users == {"u1"}
Callers == Users \cup {"u0"}
Stocks == {"s1"}
Prices == {1, 2}
Quantities == {1, 2}
Amounts == {1}
InitQuantities == {0, 2}

(***************************************************************************)
(* Program constants.                                                      *)
(***************************************************************************)
MaxRetry == 3

OrderStatus == {"INITIAL", "PENDING", "SUCCESS", "FAILED", "RETRYING", "CANCELLED"}
OrderType == {"BUY", "SELL"}
TransactionType ==
    {"DEPOSIT", "WITHDRAWAL", "ORDER_PAYMENT", "ORDER_REFUND", "SELL_INCOME"}

\* The topics the consumer subscribes to; each is one partition for the messages of
\* an order, which are keyed by the order id.
Topics == {"orders.processing.requests", "orders.events"}

VARIABLES
    balance,              \* users.balance, by user id
    orders,               \* the orders table, a sequence; an order's id is its position
    order_history,        \* order_history rows of each order, in insertion order
    transactions,         \* transactions (fill) rows of each order, in insertion order
    account_transactions, \* account_transactions rows of each user, in insertion order
    portfolio,            \* the portfolio row of each (user, stock)
    processing_requests,  \* messages published to orders.processing.requests
    order_events,         \* messages published to orders.events
    sessions,             \* database sessions in flight: what each read and will write
    consumer,             \* the consumer: self.running, where run() is, and its offsets
    producer              \* the last call of KafkaProducerContext.send and what it sent

dbvars == <<balance, orders, order_history, transactions, account_transactions,
            portfolio>>
vars == <<balance, orders, order_history, transactions, account_transactions,
          portfolio, processing_requests, order_events, sessions, consumer,
          producer>>

(***************************************************************************)
(* The database as one value: what a session reads and what it commits.    *)
(***************************************************************************)
DB ==
    [balance |-> balance, orders |-> orders, order_history |-> order_history,
     transactions |-> transactions, account_transactions |-> account_transactions,
     portfolio |-> portfolio]

RECURSIVE GCD(_, _)
GCD(a, b) == IF b = 0 THEN a ELSE GCD(b, a % b)

\* The quotient of two Decimal values, kept exact: numerator and denominator in lowest
\* terms.  A Numeric(16, 2) column stores it rounded to two places.
Quotient(a, b) == <<a \div GCD(a, b), b \div GCD(a, b)>>

NoPortfolio ==
    [present |-> FALSE, quantity |-> 0, hold_quantity |-> 0, total_purchase_amount |-> 0,
     avg_purchase_price |-> <<0, 1>>]

Order(u, s, type, status, price, quantity, amount) ==
    [user_id |-> u, stock_id |-> s, order_type |-> type, status |-> status,
     price |-> price, quantity |-> quantity, filled_quantity |-> 0,
     total_amount |-> amount, retry_count |-> 0]

OrderHistory(prev, cur, note) ==
    [previous_status |-> prev, current_status |-> cur, note |-> note]

Transaction(type, price, quantity, amount) ==
    [transaction_type |-> type, price |-> price, quantity |-> quantity,
     amount |-> amount, is_complete |-> TRUE]

AccountTransaction(type, amount, after, oid) ==
    [type |-> type, amount |-> amount, balance_after |-> after, related_order_id |-> oid]

(***************************************************************************)
(* Outcome of a call: the session's view of the database when the call     *)
(* returns or raises, the exception raised ("none" when it returns), the   *)
(* order the call is about and the messages it handed to the producer.     *)
(***************************************************************************)
Returns(db, oid, sent) ==
    [db |-> db, err |-> "none", message |-> "", id |-> oid, sent |-> sent,
     committed |-> <<>>]
Raises(db, e, oid) ==
    [db |-> db, err |-> e, message |-> "", id |-> oid, sent |-> <<>>, committed |-> <<>>]

\* An exception raised with the message the caller is shown.
RaisesWith(db, e, message, oid) == [Raises(db, e, oid) EXCEPT !.message = message]

OrderIds(db) == 1..Len(db.orders)


SetOrder(db, oid, o) == [db EXCEPT !.orders[oid] = o]
AddHistory(db, oid, row) == [db EXCEPT !.order_history[oid] = Append(@, row)]
Only(S) == CHOOSE x \in S : TRUE

(***************************************************************************)
(* trader/globals.py, trader/context/db/ctx.py: the transaction decorator. *)
(* Session.__aexit__ rolls the session back when the body raised and then  *)
(* commits (commit_on_exit); a commit after a rollback writes nothing.      *)
(***************************************************************************)
\* r.committed are the states committed while the body ran, in order: a rollback
\* returns to the last of them, or to the rows the session started from.
LastCommitted(before, r) ==
    IF r.committed = <<>> THEN before ELSE r.committed[Len(r.committed)]

SessionExit(before, r) == IF r.err # "none" THEN LastCommitted(before, r) ELSE r.db

transaction(before, r) == [r EXCEPT !.db = SessionExit(before, r)]

\* A wrapped operation called inside a running session: __aenter__ finds the session
\* and sets no token, __aexit__ is the same code, so it commits the session of the
\* caller (commit_on_exit) when the inner body returns.
nested_transaction(before, r) ==
    [r EXCEPT !.db = SessionExit(before, r),
              !.committed = IF r.err # "none" THEN @ ELSE Append(@, r.db)]

(***************************************************************************)
(* trader/order/service.py: the Order Gateway.                             *)
(***************************************************************************)
\* The stocks and stock_prices tables belong to the reference-data and price-feed
\* collaborators: what a query on them returns is an input of the call that runs it.
\* check_stock_validity: the join of the active stock with a price row, found or not.
check_stock_validity(found) == found

\* Mutation: the balance check passes whatever the balance.
HasBalance_Always(bal, required_amount) == TRUE

HasBalance(bal, required_amount) == ~(bal < required_amount)

AvailableQuantity(p) == p.quantity - p.hold_quantity

\* Mutation: availability is computed without the shares already on hold.
HasHoldings_IgnoringHold(p, quantity) == p.present /\ ~(p.quantity < quantity)

HasHoldings(p, quantity) == p.present /\ ~(AvailableQuantity(p) < quantity)

\* send_to_order_queue: the body is `pass`; nothing is handed to the producer.
send_to_order_queue(oid) == <<>>

BuyDebit(bal, order_amount) == bal - order_amount

create_buy_order(db, found, u, s, price, quantity) ==
    LET order_amount == price * quantity
        oid == Len(db.orders) + 1
        order == Order(u, s, "BUY", "PENDING", price, quantity, order_amount)
        hist == << OrderHistory("NONE", "INITIAL", "Buy order created"),
                   OrderHistory("INITIAL", "PENDING", "Processing buy order") >>
    IN  IF ~check_stock_validity(found)
          THEN Raises(db, "InvalidStockError", 0)
        ELSE IF ~HasBalance(db.balance[u], order_amount)
          THEN Raises(db, "InsufficientBalanceError", 0)
        ELSE Returns([db EXCEPT !.orders = Append(@, order),
                                !.order_history = Append(@, hist),
                                !.transactions = Append(@, <<>>),
                                !.balance[u] = BuyDebit(@, order_amount)],
                     oid, send_to_order_queue(oid))

\* Mutation: the shares of a new sell order are not put on hold.
HoldAfterSell_Unchanged(hold, quantity) == hold

HoldAfterSell(hold, quantity) == hold + quantity

create_sell_order(db, found, u, s, price, quantity) ==
    LET order_amount == price * quantity
        oid == Len(db.orders) + 1
        order == Order(u, s, "SELL", "PENDING", price, quantity, order_amount)
        hist == << OrderHistory("NONE", "INITIAL", "Sell order created"),
                   OrderHistory("INITIAL", "PENDING", "Processing sell order") >>
    IN  IF ~check_stock_validity(found)
          THEN Raises(db, "InvalidStockError", 0)
        ELSE IF ~HasHoldings(db.portfolio[<<u, s>>], quantity)
          THEN Raises(db, "InsufficientStockError", 0)
        ELSE Returns([db EXCEPT !.orders = Append(@, order),
                                !.order_history = Append(@, hist),
                                !.transactions = Append(@, <<>>),
                                !.portfolio[<<u, s>>].hold_quantity =
                                    HoldAfterSell(@, quantity)],
                     oid, send_to_order_queue(oid))

\* Mutation: the owner filter of the order query is dropped.
OwnedBy_AnyUser(db, oid, u) == oid \in OrderIds(db)

\* select(Order, Stock) ... filter(Order.id == order_id, Order.user_id == user_id)
OwnedBy(db, oid, u) == oid \in OrderIds(db) /\ db.orders[oid].user_id = u

Cancelable(status) == status \in {"INITIAL", "PENDING", "FAILED", "RETRYING"}

\* Mutation: a filled order is updatable too.
Updatable_OrCancelled(status) ==
    status \in {"INITIAL", "PENDING", "FAILED", "RETRYING", "CANCELLED"}

Updatable(status) == status \in {"INITIAL", "PENDING", "FAILED", "RETRYING"}

RefundAmount(o) == o.price * (o.quantity - o.filled_quantity)

ReleaseQuantity(o) == o.quantity - o.filled_quantity

\* Mutation: the hold is released only when it exceeds the release.
ReleaseHold_Strict(p, release_quantity) ==
    IF p.present /\ p.hold_quantity > release_quantity
      THEN [p EXCEPT !.hold_quantity = @ - release_quantity]
      ELSE p

\* The hold is released only when it covers the release (service.py 515, ctx.py 442).
ReleaseHold(p, release_quantity) ==
    IF p.present /\ p.hold_quantity >= release_quantity
      THEN [p EXCEPT !.hold_quantity = @ - release_quantity]
      ELSE p

cancel_order(db, oid, u) ==
    IF ~OwnedBy(db, oid, u)
      THEN RaisesWith(db, "InvalidOrderError",
                      "Order not found or not owned by user", oid)
    ELSE LET o == db.orders[oid]
             released ==
               IF o.order_type = "BUY"
                 THEN [db EXCEPT !.balance[u] = @ + RefundAmount(o)]
                 ELSE [db EXCEPT !.portfolio[<<u, o.stock_id>>] =
                                      ReleaseHold(@, ReleaseQuantity(o))]
             cancelled == SetOrder(released, oid, [o EXCEPT !.status = "CANCELLED"])
         IN  IF ~Cancelable(o.status)
               THEN RaisesWith(db, "InvalidOrderError",
                               "Order cannot be cancelled in its current state", oid)
             ELSE Returns(AddHistory(cancelled, oid,
                              OrderHistory(o.status, "CANCELLED", "Order cancelled by user")),
                          oid, <<>>)

\* Mutation: a smaller total is not refunded.
AdditionalAmount_ChargeOnly(old_total, new_total) ==
    IF new_total > old_total THEN new_total - old_total ELSE 0

\* additional_amount = new_total - old_total (service.py 606): charged when positive,
\* refunded when negative.
AdditionalAmount(old_total, new_total) == new_total - old_total

\* request.price and request.quantity are optional: a set with no element is None.
update_order(db, oid, u, rprice, rquantity) ==
    IF ~OwnedBy(db, oid, u)
      THEN RaisesWith(db, "InvalidOrderError",
                      "Order not found or not owned by user", oid)
    ELSE LET o == db.orders[oid]
             new_price == IF rprice # {} THEN Only(rprice) ELSE o.price
             new_quantity == IF rquantity # {} THEN Only(rquantity) ELSE o.quantity
             new_total == new_price * new_quantity
             additional_amount == AdditionalAmount(o.total_amount, new_total)
             p == db.portfolio[<<u, o.stock_id>>]
             grows == o.order_type = "SELL" /\ rquantity # {} /\ Only(rquantity) > o.quantity
             additional_quantity == new_quantity - o.quantity
             paid ==
               IF o.order_type = "BUY"
                 THEN [db EXCEPT !.balance[u] = @ - additional_amount]
               ELSE IF grows
                 THEN [db EXCEPT !.portfolio[<<u, o.stock_id>>].hold_quantity =
                                     @ + additional_quantity]
               ELSE db
             updated == SetOrder(paid, oid, [o EXCEPT !.price = new_price,
                                                      !.quantity = new_quantity,
                                                      !.total_amount = new_total])
         IN  IF ~Updatable(o.status)
               THEN RaisesWith(db, "InvalidOrderError",
                               "Order cannot be updated in its current state", oid)
             ELSE IF o.filled_quantity > 0
               THEN RaisesWith(db, "InvalidOrderError",
                               "Order with partial fills cannot be updated", oid)
             ELSE IF rprice = {} /\ rquantity = {}
               THEN Returns(db, oid, <<>>)
             ELSE IF o.order_type = "BUY" /\ additional_amount > 0
                     /\ ~HasBalance(db.balance[u], additional_amount)
               THEN Raises(db, "InsufficientBalanceError", oid)
             ELSE IF grows /\ ~p.present
               THEN Raises(db, "InsufficientStockError", oid)
             ELSE IF grows /\ AvailableQuantity(p) + o.quantity < Only(rquantity)
               THEN Raises(db, "InsufficientStockError", oid)
             ELSE Returns(AddHistory(updated, oid,
                              OrderHistory(o.status, o.status, "Order updated")),
                          oid, <<>>)

(***************************************************************************)
(* trader/user/service.py: deposit and withdraw.                           *)
(***************************************************************************)
deposit(db, u, amount) ==
    IF amount <= 0 THEN Raises(db, "InvalidCredentialsError", 0)
    ELSE LET after == db.balance[u] + amount
         IN  Returns([db EXCEPT !.balance[u] = after,
                                !.account_transactions[u] =
                                    Append(@, AccountTransaction("DEPOSIT", amount, after, 0))],
                     0, <<>>)

withdraw(db, u, amount) ==
    IF amount <= 0 THEN Raises(db, "InvalidCredentialsError", 0)
    ELSE IF ~HasBalance(db.balance[u], amount)
      THEN Raises(db, "InsufficientBalanceError", 0)
    ELSE LET after == db.balance[u] - amount
         IN  Returns([db EXCEPT !.balance[u] = after,
                                !.account_transactions[u] =
                                    Append(@, AccountTransaction("WITHDRAWAL", 0 - amount, after, 0))],
                     0, <<>>)

(***************************************************************************)
(* trader/context/kafka/ctx.py: the Order Processor.                       *)
(***************************************************************************)
\* select(StockPrice).filter(stock_id).first(): no row, or a row with its current_price.
PriceRows ==
    {[found |-> FALSE, current_price |-> 0]}
        \cup {[found |-> TRUE, current_price |-> m] : m \in Prices}

\* Mutation: an order left in FAILED is processable too.
Processable_OrFailed(status) == status \in {"PENDING", "RETRYING", "FAILED"}

Processable(status) == status \in {"PENDING", "RETRYING"}

\* Mutation: a BUY order is filled only below its limit price.
Eligible_BuyBelowLimit(o, current_price) ==
    \/ o.order_type = "BUY" /\ o.price > current_price
    \/ o.order_type = "SELL" /\ o.price <= current_price

Eligible(o, current_price) ==
    \/ o.order_type = "BUY" /\ o.price >= current_price
    \/ o.order_type = "SELL" /\ o.price <= current_price

\* Mutation: the retry limit is compared with > instead of >=.
RetryExhausted_Late(retry_count) == retry_count > MaxRetry

\* Mutation: no number of failed attempts cancels the order.
RetryExhausted_Never(retry_count) == FALSE

RetryExhausted(retry_count) == retry_count >= MaxRetry

\* Mutation: the commit of auto_cancel_order is issued before the history row is added.
AutoCancelCommit_BeforeHistory(cancelled, logged) == cancelled

\* auto_cancel_order ends with its own `await sql.session.commit()` (ctx.py 457), after
\* the refund or release, the status and the history row.
AutoCancelCommit(cancelled, logged) == logged

auto_cancel_order(db, oid) ==
    IF oid \notin OrderIds(db) THEN Returns(db, oid, <<>>)
    ELSE LET o == db.orders[oid]
             u == o.user_id
             after == db.balance[u] + RefundAmount(o)
             released ==
               IF o.order_type = "BUY"
                 THEN [db EXCEPT !.balance[u] = after,
                                 !.account_transactions[u] =
                                     Append(@, AccountTransaction("ORDER_REFUND",
                                                   RefundAmount(o), after, oid))]
                 ELSE [db EXCEPT !.portfolio[<<u, o.stock_id>>] =
                                      ReleaseHold(@, ReleaseQuantity(o))]
             cancelled == SetOrder(released, oid, [o EXCEPT !.status = "CANCELLED"])
             logged ==
               AddHistory(cancelled, oid,
                   OrderHistory(o.status, "CANCELLED",
                                "Order auto-cancelled after maximum retry attempts"))
         IN  [Returns(logged, oid, <<>>) EXCEPT
                 !.committed = <<AutoCancelCommit(cancelled, logged)>>]

\* The fill of process_order (ctx.py 275-364): all of the remaining quantity at the
\* market price.
\* Mutation: the average purchase price of an existing row is left as it was.
BuyIntoPortfolio_KeepAverage(p, executed_quantity, execution_price, execution_amount) ==
    IF ~p.present
      THEN [present |-> TRUE, quantity |-> executed_quantity, hold_quantity |-> 0,
            total_purchase_amount |-> execution_amount,
            avg_purchase_price |-> Quotient(execution_price, 1)]
      ELSE [p EXCEPT !.quantity = @ + executed_quantity,
                     !.total_purchase_amount = @ + execution_amount]

BuyIntoPortfolio(p, executed_quantity, execution_price, execution_amount) ==
    IF ~p.present
      THEN [present |-> TRUE, quantity |-> executed_quantity, hold_quantity |-> 0,
            total_purchase_amount |-> execution_amount,
            avg_purchase_price |-> Quotient(execution_price, 1)]
      ELSE LET total_quantity == p.quantity + executed_quantity
               total_amount == p.total_purchase_amount + execution_amount
           IN  [p EXCEPT !.quantity = total_quantity,
                         !.total_purchase_amount = total_amount,
                         !.avg_purchase_price = Quotient(total_amount, total_quantity)]

\* Mutation: a sale takes the shares and leaves them on hold.
SellFromPortfolio_KeepHold(p, executed_quantity) ==
    [p EXCEPT !.quantity = @ - executed_quantity]

SellFromPortfolio(p, executed_quantity) ==
    [p EXCEPT !.quantity = @ - executed_quantity,
              !.hold_quantity = @ - executed_quantity]

\* Mutation: a complete fill leaves the status as it was.
FilledStatus_Unchanged(o) == o.status

FilledStatus(o) == IF o.filled_quantity >= o.quantity THEN "SUCCESS" ELSE o.status

execute_order(db, oid, current_price) ==
    LET o == db.orders[oid]
        u == o.user_id
        key == <<u, o.stock_id>>
        executed_quantity == o.quantity - o.filled_quantity
        execution_price == current_price
        execution_amount == execution_price * executed_quantity
        recorded ==
          [db EXCEPT !.transactions[oid] =
              Append(@, Transaction(o.order_type, execution_price,
                                    executed_quantity, execution_amount))]
        after == db.balance[u] + execution_amount
        settled ==
          IF o.order_type = "BUY"
            THEN [recorded EXCEPT !.portfolio[key] =
                      BuyIntoPortfolio(@, executed_quantity, execution_price,
                                       execution_amount)]
          ELSE IF db.portfolio[key].present
            THEN [recorded EXCEPT
                      !.portfolio[key] = SellFromPortfolio(@, executed_quantity),
                      !.balance[u] = after,
                      !.account_transactions[u] =
                          Append(@, AccountTransaction("SELL_INCOME", execution_amount,
                                                       after, oid))]
          ELSE recorded
        filled == [o EXCEPT !.filled_quantity = @ + executed_quantity]
        done == [filled EXCEPT !.status = FilledStatus(filled)]
        stored == SetOrder(settled, oid, done)
    IN  IF done.status = "SUCCESS"
          THEN AddHistory(stored, oid,
                   OrderHistory(IF o.retry_count = 0 THEN "PENDING" ELSE "RETRYING",
                                "SUCCESS", "Order fully executed"))
          ELSE stored

\* The except clauses of auto_cancel_order (ctx.py 459-462): whatever was raised inside
\* it, the session is rolled back to the rows it started from and nothing is raised.
auto_cancel_order_failed(before, oid) == Returns(before, oid, <<>>)

\* process_order; cancel_fails tells whether something raises inside auto_cancel_order
\* when the step calls it.
process_order_step(db, oid, row, cancel_fails) ==
    IF oid \notin OrderIds(db) THEN Returns(db, oid, <<>>)
    ELSE LET o == db.orders[oid]
             retried == [o EXCEPT !.retry_count = @ + 1]
             previous == IF retried.retry_count = 1 THEN "PENDING" ELSE "RETRYING"
             failed ==
               AddHistory(SetOrder(db, oid, [retried EXCEPT !.status = "FAILED"]), oid,
                   OrderHistory(previous, "FAILED",
                                "Failed to process order: price information not available"))
             counted == SetOrder(db, oid, retried)
             retrying ==
               AddHistory(SetOrder(db, oid, [retried EXCEPT !.status = "RETRYING"]), oid,
                   OrderHistory(previous, "RETRYING", "Retry: price does not match"))
         IN  IF ~Processable(o.status)
               THEN Returns(db, oid, <<>>)
             ELSE IF ~row.found
               THEN IF RetryExhausted(retried.retry_count)
                      THEN IF cancel_fails THEN auto_cancel_order_failed(db, oid)
                           ELSE auto_cancel_order(failed, oid)
                      ELSE Returns(failed, oid, <<>>)
             ELSE IF Eligible(o, row.current_price)
               THEN Returns(execute_order(db, oid, row.current_price), oid, <<>>)
             ELSE IF RetryExhausted(retried.retry_count)
               THEN IF cancel_fails THEN auto_cancel_order_failed(db, oid)
                    ELSE auto_cancel_order(counted, oid)
             ELSE Returns(retrying, oid, <<>>)

process_order(db, oid, row) == process_order_step(db, oid, row, FALSE)

(***************************************************************************)
(* trader/order/service.py: OrderService.process_order, the gateway's copy *)
(* of the processing step.  It raises where the consumer returns, writes   *)
(* no ledger entry, and cancels through the wrapped cancel_order.          *)
(***************************************************************************)
OrderService_execute_order(db, oid, current_price) ==
    LET o == db.orders[oid]
        u == o.user_id
        key == <<u, o.stock_id>>
        executed_quantity == o.quantity - o.filled_quantity
        execution_amount == current_price * executed_quantity
        recorded ==
          [db EXCEPT !.transactions[oid] =
              Append(@, Transaction(o.order_type, current_price,
                                    executed_quantity, execution_amount))]
        settled ==
          IF o.order_type = "BUY"
            THEN [recorded EXCEPT !.portfolio[key] =
                      BuyIntoPortfolio(@, executed_quantity, current_price,
                                       execution_amount)]
          ELSE IF db.portfolio[key].present
            THEN [recorded EXCEPT
                      !.portfolio[key] = SellFromPortfolio(@, executed_quantity),
                      !.balance[u] = @ + execution_amount]
          ELSE recorded
        filled == [o EXCEPT !.filled_quantity = @ + executed_quantity]
        done == IF filled.filled_quantity >= filled.quantity
                  THEN [filled EXCEPT !.status = "SUCCESS"]
                  ELSE filled
        stored == SetOrder(settled, oid, done)
    IN  IF done.status = "SUCCESS"
          \* previous_status is read after status was set (service.py 837, 842)
          THEN AddHistory(stored, oid,
                   OrderHistory("SUCCESS", "SUCCESS", "Order fully executed"))
          ELSE stored

OrderService_process_order(db, oid, row) ==
    IF oid \notin OrderIds(db) THEN RaisesWith(db, "InvalidOrderError",
                                               "Order not found", oid)
    ELSE LET o == db.orders[oid]
             retried == [o EXCEPT !.retry_count = @ + 1]
             previous == IF retried.retry_count = 1 THEN "PENDING" ELSE "RETRYING"
             failed ==
               AddHistory(SetOrder(db, oid, [retried EXCEPT !.status = "FAILED"]), oid,
                   OrderHistory(previous, "FAILED",
                                "Failed to process order: price information not available"))
             counted == SetOrder(db, oid, retried)
             retrying ==
               AddHistory(SetOrder(db, oid, [retried EXCEPT !.status = "RETRYING"]), oid,
                   OrderHistory(previous, "RETRYING", "Retry: price does not match"))
         IN  IF o.status \notin {"PENDING", "RETRYING"}
               THEN RaisesWith(db, "InvalidOrderError",
                               "Order is not in a processable state", oid)
             ELSE IF ~row.found
               THEN IF retried.retry_count >= 3
                      THEN nested_transaction(db, cancel_order(failed, oid, o.user_id))
                      ELSE Returns(failed, oid, <<>>)
             ELSE IF \/ o.order_type = "BUY" /\ o.price >= row.current_price
                     \/ o.order_type = "SELL" /\ o.price <= row.current_price
               THEN Returns(OrderService_execute_order(db, oid, row.current_price), oid, <<>>)
             ELSE IF retried.retry_count >= 3
               THEN nested_transaction(db, cancel_order(counted, oid, o.user_id))
             ELSE Returns(retrying, oid, <<>>)

(***************************************************************************)
(* trader/context/kafka/ctx.py: the Order Command Handler.                 *)
(***************************************************************************)
\* Mutation: the update event resets an order whatever its status.
Resettable_Any(status) == TRUE

\* Mutation: only a PENDING order is reset.
Resettable_PendingOnly(status) == status = "PENDING"

Resettable(status) == status \in {"PENDING", "RETRYING"}

reset_order_processing(db, oid) ==
    IF oid \notin OrderIds(db) THEN Returns(db, oid, <<>>)
    ELSE LET o == db.orders[oid]
             reset == SetOrder(db, oid, [o EXCEPT !.retry_count = 0, !.status = "PENDING"])
         IN  IF Resettable(o.status)
               \* previous_status is read after status was set to PENDING (ctx.py 212, 217)
               THEN Returns(AddHistory(reset, oid,
                                OrderHistory("PENDING", "PENDING",
                                             "Order processing reset after update")),
                            oid, <<>>)
               ELSE Returns(db, oid, <<>>)

(***************************************************************************)
(* The state machine.                                                      *)
(***************************************************************************)
InitPortfolio(q) ==
    IF q = 0 THEN NoPortfolio
    ELSE [present |-> TRUE, quantity |-> q, hold_quantity |-> 0, total_purchase_amount |-> q,
          avg_purchase_price |-> Quotient(q, q)]

None == "None"

\* A Data payload.  Data declares the field messages only; contents is the field a
\* payload must have for chunk() to slice it.
Data(messages) == [messages |-> messages]
DataWithContents(messages, contents) == [messages |-> messages, contents |-> contents]

\* The producer before send was called.
NoCall ==
    [called |-> FALSE, producer |-> [value_serializer |-> "none"], topic |-> None,
     data |-> Data("m"), key |-> None, chunk_size |-> 0, err |-> "none",
     sent |-> <<>>]

Init ==
    /\ balance = [u \in Users |-> InitBalance]
    /\ orders = <<>>
    /\ order_history = <<>>
    /\ transactions = <<>>
    /\ account_transactions = [u \in Users |-> <<>>]
    /\ portfolio \in [Users \X Stocks -> {InitPortfolio(q) : q \in InitQuantities}]
    /\ processing_requests = <<>>
    /\ order_events = <<>>
    /\ sessions = <<>>
    /\ consumer = [running |-> FALSE, pc |-> "stopped",
                   position |-> [t \in Topics |-> 0],
                   committed |-> [t \in Topics |-> 0],
                   failures |-> 0]
    /\ producer = NoCall

RECURSIVE Rows(_)
Rows(tables) == IF tables = <<>> THEN 0 ELSE Len(Head(tables)) + Rows(Tail(tables))

\* The session's commit: the rows of r.db become the rows of the database.  Runs are
\* explored while the order_history table holds at most MaxHistory rows.
Commit(r) ==
    /\ Rows(r.db.order_history) <= MaxHistory
    /\ balance' = r.db.balance
    /\ orders' = r.db.orders
    /\ order_history' = r.db.order_history
    /\ transactions' = r.db.transactions
    /\ account_transactions' = r.db.account_transactions
    /\ portfolio' = r.db.portfolio
    /\ UNCHANGED <<sessions, consumer, producer>>

Optional(S) == {{}} \cup {{x} : x \in S}

AnyOrderId == 1..MaxOrders

CreateBuyOrder ==
    /\ Len(orders) < MaxOrders
    /\ \E found \in BOOLEAN, u \in Users, s \in Stocks, price \in Prices,
          quantity \in Quantities :
         LET r == transaction(DB, create_buy_order(DB, found, u, s, price, quantity))
         IN  /\ Commit(r)
             /\ processing_requests' = processing_requests \o r.sent
             /\ UNCHANGED order_events

CreateSellOrder ==
    /\ Len(orders) < MaxOrders
    /\ \E found \in BOOLEAN, u \in Users, s \in Stocks, price \in Prices,
          quantity \in Quantities :
         LET r == transaction(DB, create_sell_order(DB, found, u, s, price, quantity))
         IN  /\ Commit(r)
             /\ processing_requests' = processing_requests \o r.sent
             /\ UNCHANGED order_events

\* The caller is the authenticated user of the request, the owner of the order or not.
CancelOrder ==
    \E oid \in AnyOrderId, u \in Callers :
        LET r == transaction(DB, cancel_order(DB, oid, u))
        IN  /\ Commit(r)
            /\ order_events' = order_events \o r.sent
            /\ UNCHANGED processing_requests

UpdateOrder ==
    \E oid \in AnyOrderId, u \in Callers, rprice \in Optional(Prices),
       rquantity \in Optional(Quantities) :
        LET r == transaction(DB, update_order(DB, oid, u, rprice, rquantity))
        IN  /\ Commit(r)
            /\ order_events' = order_events \o r.sent
            /\ UNCHANGED processing_requests

Deposit ==
    \E u \in Users, amount \in Amounts :
        /\ Len(account_transactions[u]) < MaxLedger
        /\ Commit(transaction(DB, deposit(DB, u, amount)))
        /\ UNCHANGED <<processing_requests, order_events>>

Withdraw ==
    \E u \in Users, amount \in Amounts :
        /\ Len(account_transactions[u]) < MaxLedger
        /\ Commit(transaction(DB, withdraw(DB, u, amount)))
        /\ UNCHANGED <<processing_requests, order_events>>

\* run() hands a message of orders.processing.requests to handle_processing_request.
\* The broker delivers at least once: any order id, any number of times.
HandleProcessingRequest ==
    \E oid \in AnyOrderId, row \in PriceRows, cancel_fails \in BOOLEAN :
            /\ Commit(transaction(DB, process_order_step(DB, oid, row, cancel_fails)))
            /\ UNCHANGED <<processing_requests, order_events>>

HandleUpdateEvent ==
    \E oid \in AnyOrderId :
        /\ Commit(transaction(DB, reset_order_processing(DB, oid)))
        /\ UNCHANGED <<processing_requests, order_events>>

HandleCancelEvent ==
    \E oid \in AnyOrderId :
        UNCHANGED <<dbvars, processing_requests, order_events, sessions, consumer, producer>>

Next ==
    \/ CreateBuyOrder
    \/ CreateSellOrder
    \/ CancelOrder
    \/ UpdateOrder
    \/ HandleProcessingRequest
    \/ HandleUpdateEvent
    \/ HandleCancelEvent

Spec == Init /\ [][Next]_vars

\* The gateway and the consumer together with the cash operations of the user service.
NextCash ==
    \/ Next
    \/ Deposit
    \/ Withdraw

SpecCash == Init /\ [][NextCash]_vars

(***************************************************************************)
(* Concurrent sessions.  No query of the repository locks a row (there is  *)
(* no with_for_update) and no isolation level is set, so a session reads   *)
(* committed rows, computes on the objects it loaded, and at commit the    *)
(* unit of work writes every attribute it changed as an absolute value and *)
(* inserts the rows it added.  A session in flight is the pair of what it  *)
(* read and what its body made of it; committing it merges the changed     *)
(* columns and the added rows into the rows committed in the meantime.     *)
(***************************************************************************)
MergeRow(cur, read, write) ==
    [f \in DOMAIN cur |-> IF write[f] # read[f] THEN write[f] ELSE cur[f]]

Added(read, write) == SubSeq(write, Len(read) + 1, Len(write))

\* Rows kept per order (order_history, transactions): inserts of the known orders are
\* appended, the rows of an order the session created follow the new order.
MergeChildren(cur, read, write) ==
    [oid \in 1..Len(cur) |->
        IF oid <= Len(read) THEN cur[oid] \o Added(read[oid], write[oid]) ELSE cur[oid]]
      \o Added(read, write)

MergeSession(cur, read, write) ==
    [balance |-> MergeRow(cur.balance, read.balance, write.balance),
     orders |->
        [oid \in 1..Len(cur.orders) |->
            IF oid <= Len(read.orders)
              THEN MergeRow(cur.orders[oid], read.orders[oid], write.orders[oid])
              ELSE cur.orders[oid]]
          \o Added(read.orders, write.orders),
     order_history |-> MergeChildren(cur.order_history, read.order_history, write.order_history),
     transactions |-> MergeChildren(cur.transactions, read.transactions, write.transactions),
     account_transactions |->
        [u \in Users |-> cur.account_transactions[u]
                            \o Added(read.account_transactions[u], write.account_transactions[u])],
     portfolio |->
        [key \in Users \X Stocks |->
            MergeRow(cur.portfolio[key], read.portfolio[key], write.portfolio[key])]]

\* The body of an operation ran on the rows it read.  A body that raised was rolled
\* back, and one that changed no attribute and added no row has nothing to flush:
\* neither leaves a session with writes behind.  commits are the commits the body
\* issues before it returns.
Begin(r) ==
    /\ sessions' = IF SessionExit(DB, r) # DB
                     THEN Append(sessions, [read |-> DB, write |-> SessionExit(DB, r),
                                            commits |-> r.committed])
                     ELSE sessions
    /\ UNCHANGED <<dbvars, processing_requests, order_events, consumer, producer>>

BeginCreateBuyOrder ==
    \E found \in BOOLEAN, u \in Users, s \in Stocks, price \in Prices, quantity \in Quantities :
        /\ Len(sessions) < MaxSessions
        /\ Begin(create_buy_order(DB, found, u, s, price, quantity))

BeginUpdateOrder ==
    \E oid \in AnyOrderId, u \in Users, rprice \in Optional(Prices),
       rquantity \in Optional(Quantities) :
        /\ Len(sessions) < MaxSessions
        /\ Begin(update_order(DB, oid, u, rprice, rquantity))

BeginCancelOrder ==
    \E oid \in AnyOrderId, u \in Users :
        /\ Len(sessions) < MaxSessions
        /\ Begin(cancel_order(DB, oid, u))

BeginWithdraw ==
    \E u \in Users, amount \in Amounts :
        /\ Len(sessions) < MaxSessions
        /\ Begin(withdraw(DB, u, amount))

BeginProcessing ==
    \E oid \in AnyOrderId, row \in PriceRows :
        /\ Len(sessions) < MaxSessions
        /\ Begin(process_order(DB, oid, row))

RECURSIVE LedgerRows(_, _)
LedgerRows(ledger, S) ==
    IF S = {} THEN 0
    ELSE LET u == CHOOSE x \in S : TRUE
         IN  Len(ledger[u]) + LedgerRows(ledger, S \ {u})

\* Commit of a session in flight.  Runs are explored while the order_history and
\* account_transactions tables together hold at most MaxTxRows rows.
CommitSession ==
    \E i \in 1..Len(sessions) :
        LET merged == MergeSession(DB, sessions[i].read, sessions[i].write)
        IN  /\ Len(merged.orders) <= MaxOrders
            /\ Rows(merged.order_history) + LedgerRows(merged.account_transactions, Users)
                  <= MaxTxRows
            /\ balance' = merged.balance
            /\ orders' = merged.orders
            /\ order_history' = merged.order_history
            /\ transactions' = merged.transactions
            /\ account_transactions' = merged.account_transactions
            /\ portfolio' = merged.portfolio
            /\ sessions' = [k \in 1..(Len(sessions) - 1) |->
                               IF k < i THEN sessions[k] ELSE sessions[k + 1]]
            /\ UNCHANGED <<processing_requests, order_events, consumer, producer>>

NextTx ==
    \/ BeginCreateBuyOrder
    \/ BeginUpdateOrder
    \/ BeginCancelOrder
    \/ BeginWithdraw
    \/ BeginProcessing
    \/ CommitSession

SpecTx == Init /\ [][NextTx]_vars

(***************************************************************************)
(* Crashes.  One unit of work runs at a time; the process may stop at any  *)
(* point between the start of the body and the return of the decorator.    *)
(* What is persisted then is what the session committed so far: a crash    *)
(* drops the session and leaves the committed rows as they are.            *)
(***************************************************************************)
StartCreateBuyOrder ==
    \E found \in BOOLEAN, u \in Users, s \in Stocks, price \in Prices, quantity \in Quantities :
        /\ sessions = <<>> /\ Len(orders) < MaxOrders
        /\ Begin(create_buy_order(DB, found, u, s, price, quantity))

StartCreateSellOrder ==
    \E found \in BOOLEAN, u \in Users, s \in Stocks, price \in Prices, quantity \in Quantities :
        /\ sessions = <<>> /\ Len(orders) < MaxOrders
        /\ Begin(create_sell_order(DB, found, u, s, price, quantity))

StartCancelOrder ==
    \E oid \in AnyOrderId, u \in Users :
        /\ sessions = <<>>
        /\ Begin(cancel_order(DB, oid, u))

StartUpdateOrder ==
    \E oid \in AnyOrderId, u \in Users, rprice \in Optional(Prices),
       rquantity \in Optional(Quantities) :
        /\ sessions = <<>>
        /\ Begin(update_order(DB, oid, u, rprice, rquantity))

StartProcessing ==
    \E oid \in AnyOrderId, row \in PriceRows :
        /\ sessions = <<>>
        /\ Begin(process_order(DB, oid, row))

\* OrderService.process_order: no route and no handler calls it; it is started here as
\* a unit of work of the service.
StartServiceProcessing ==
    \E oid \in AnyOrderId, row \in PriceRows :
        /\ sessions = <<>>
        /\ Begin(OrderService_process_order(DB, oid, row))

Persist(db) ==
    /\ balance' = db.balance
    /\ orders' = db.orders
    /\ order_history' = db.order_history
    /\ transactions' = db.transactions
    /\ account_transactions' = db.account_transactions
    /\ portfolio' = db.portfolio

\* A commit issued inside the body: auto_cancel_order's own, or the exit of a nested
\* wrapped call.
InnerCommit ==
    /\ Len(sessions) = 1 /\ sessions[1].commits # <<>>
    /\ Persist(Head(sessions[1].commits))
    /\ sessions' = <<[sessions[1] EXCEPT !.commits = Tail(@)]>>
    /\ UNCHANGED <<processing_requests, order_events, consumer, producer>>

\* The body returned and Session.__aexit__ committed.
Finish ==
    /\ Len(sessions) = 1 /\ sessions[1].commits = <<>>
    /\ Rows(sessions[1].write.order_history) <= MaxHistory
    /\ Persist(sessions[1].write)
    /\ sessions' = <<>>
    /\ UNCHANGED <<processing_requests, order_events, consumer, producer>>

Crash ==
    /\ Len(sessions) = 1
    /\ sessions' = <<>>
    /\ UNCHANGED <<dbvars, processing_requests, order_events, consumer, producer>>

NextCrash ==
    \/ StartCreateBuyOrder
    \/ StartCreateSellOrder
    \/ StartCancelOrder
    \/ StartUpdateOrder
    \/ StartProcessing
    \/ StartServiceProcessing
    \/ InnerCommit
    \/ Finish
    \/ Crash

SpecCrash == Init /\ [][NextCrash]_vars

(***************************************************************************)
(* trader/context/kafka/ctx.py: KafkaConsumerContext.run, the consumer     *)
(* loop.  One AIOKafkaConsumer of group order_processor is subscribed to   *)
(* both topics with enable_auto_commit=False.  Nothing in the repository   *)
(* publishes to the topics: the messages are those of any producer, well   *)
(* formed or not.  A topic is the sequence of its messages; the consumer   *)
(* holds, per topic, the position it fetches from and the offset it has    *)
(* committed to the group.                                                 *)
(***************************************************************************)
\* message.value: bytes that are a JSON object with an order_id, UTF-8 text that is
\* not JSON, or bytes that are not UTF-8.
Payloads ==
    {[kind |-> "json", order_id |-> oid] : oid \in AnyOrderId}
        \cup {[kind |-> "not_json", order_id |-> 0], [kind |-> "not_utf8", order_id |-> 0]}

\* The event_type header of a message of orders.events; "" is what run() reads when
\* the header is missing.
EventTypes == {"order.cancel", "order.update", "order.create", ""}

\* seq is the place of the message among all messages published, on either topic.
Message(value, event_type, seq) ==
    [value |-> value, event_type |-> event_type, seq |-> seq]

Log(t) == IF t = "orders.processing.requests" THEN processing_requests ELSE order_events

Published == Len(processing_requests) + Len(order_events)

\* json.loads(message.value.decode('utf-8')): the exception it raises, or "none".
json_loads(value) ==
    IF value.kind = "not_utf8" THEN "UnicodeDecodeError"
    ELSE IF value.kind = "not_json" THEN "JSONDecodeError"
    ELSE "none"

\* self._consumer.commit() without arguments: the consumed position of every assigned
\* partition becomes its committed offset.
commit(c) == [c EXCEPT !.committed = c.position]

\* The handlers.  storage is the database failing under the handler: the first query
\* raises SQLAlchemyError, which the wrapped operation re-raises.
handle_processing_request(db, value, row, storage) ==
    IF storage THEN transaction(db, Raises(db, "SQLAlchemyError", value.order_id))
    ELSE transaction(db, process_order(db, value.order_id, row))

\* Mutation: the cancel event resets the processing of the order.
handle_cancel_event_Resets(db, value) ==
    transaction(db, reset_order_processing(db, value.order_id))

handle_cancel_event(db, value) == Returns(db, value.order_id, <<>>)

handle_update_event(db, value, storage) ==
    IF storage THEN transaction(db, Raises(db, "SQLAlchemyError", value.order_id))
    ELSE transaction(db, reset_order_processing(db, value.order_id))

\* One pass of the body of `async for message in self._consumer` on the next message
\* of topic t: the consumer and the database afterwards, the handler that was called
\* and the exception the pass caught.
run_iteration(c, db, t, row, storage) ==
    LET message == Log(t)[c.position[t] + 1]
        fetched == [c EXCEPT !.position[t] = @ + 1]
        undecoded == json_loads(message.value)
        handler ==
          IF t = "orders.processing.requests" THEN "handle_processing_request"
          ELSE IF message.event_type = "order.cancel" THEN "handle_cancel_event"
          ELSE IF message.event_type = "order.update" THEN "handle_update_event"
          ELSE "none"
        r == IF handler = "handle_processing_request"
               THEN handle_processing_request(db, message.value, row, storage)
             ELSE IF handler = "handle_update_event"
               THEN handle_update_event(db, message.value, storage)
             ELSE IF handler = "handle_cancel_event"
               THEN handle_cancel_event(db, message.value)
             ELSE Returns(db, message.value.order_id, <<>>)
    IN  IF undecoded = "JSONDecodeError"
          THEN [consumer |-> commit(fetched), db |-> db, handler |-> "none",
                caught |-> undecoded]
        ELSE IF undecoded # "none"
          THEN [consumer |-> fetched, db |-> db, handler |-> "none", caught |-> undecoded]
        ELSE IF r.err # "none"
          THEN [consumer |-> fetched, db |-> r.db, handler |-> handler, caught |-> r.err]
        ELSE [consumer |-> commit(fetched), db |-> r.db, handler |-> handler,
              caught |-> "none"]

\* Mutation: the handler of the outer except clause lets run() end.
AfterFailure_Terminates(running) == "terminated"

\* The outer except clause of run(): if self.running, sleep and call run() again.
AfterFailure(running) == IF running THEN "sleeping" ELSE "terminated"

PublishProcessingRequest ==
    \E value \in Payloads :
        /\ Published < MaxMessages
        /\ processing_requests' =
             Append(processing_requests, Message(value, "", Published + 1))
        /\ UNCHANGED <<dbvars, order_events, sessions, consumer, producer>>

PublishEvent ==
    \E value \in Payloads, event_type \in EventTypes :
        /\ Published < MaxMessages
        /\ order_events' = Append(order_events, Message(value, event_type, Published + 1))
        /\ UNCHANGED <<dbvars, processing_requests, sessions, consumer, producer>>

PlaceBuyOrder == Len(orders) < MaxConsumerOrders /\ CreateBuyOrder

PlaceSellOrder == Len(orders) < MaxConsumerOrders /\ CreateSellOrder

\* run() on a consumer that is not running: start(), then the loop.  The group has
\* no offsets at first and auto_offset_reset is earliest.
StartConsumer ==
    /\ consumer.pc = "stopped" /\ ~consumer.running
    /\ consumer' = [consumer EXCEPT !.running = TRUE, !.pc = "consuming",
                                    !.position = consumer.committed]
    /\ UNCHANGED <<dbvars, processing_requests, order_events, sessions, producer>>

\* The iterator hands over the next message of one of the topics.
ConsumeMessage ==
    \E t \in Topics, row \in PriceRows, storage \in BOOLEAN :
        /\ consumer.pc = "consuming"
        /\ consumer.position[t] < Len(Log(t))
        /\ LET pass == run_iteration(consumer, DB, t, row, storage)
           IN  /\ Persist(pass.db)
               /\ consumer' = pass.consumer
        /\ UNCHANGED <<processing_requests, order_events, sessions, producer>>

\* The iterator raises (the broker is unreachable): the outer except clause.
ConsumerFailure ==
    /\ consumer.pc = "consuming" /\ consumer.failures < MaxFailures
    /\ consumer' = [consumer EXCEPT !.pc = AfterFailure(consumer.running),
                                    !.failures = @ + 1]
    /\ UNCHANGED <<dbvars, processing_requests, order_events, sessions, producer>>

\* asyncio.sleep(5) is over and run() is entered again; self.running is still True,
\* so the consumer is iterated again without start().
Resume ==
    /\ consumer.pc = "sleeping"
    /\ consumer' = [consumer EXCEPT !.pc = "consuming"]
    /\ UNCHANGED <<dbvars, processing_requests, order_events, sessions, producer>>

\* The group rebalances (the session timed out, the process was restarted): the
\* partitions are fetched again from their committed offsets.
Rebalance ==
    /\ consumer.pc = "consuming" /\ consumer.failures < MaxFailures
    /\ consumer.position # consumer.committed
    /\ consumer' = [consumer EXCEPT !.position = consumer.committed, !.failures = @ + 1]
    /\ UNCHANGED <<dbvars, processing_requests, order_events, sessions, producer>>

NextConsumer ==
    \/ PlaceBuyOrder
    \/ PlaceSellOrder
    \/ PublishProcessingRequest
    \/ PublishEvent
    \/ StartConsumer
    \/ ConsumeMessage
    \/ ConsumerFailure
    \/ Resume
    \/ Rebalance

SpecConsumer == Init /\ [][NextConsumer]_vars

\* The event loop runs the coroutine of run() whenever it can go on: it starts, the
\* sleep ends, and a message that is there is handed over.
SpecConsumerLive ==
    /\ Init /\ [][NextConsumer]_vars
    /\ WF_vars(StartConsumer)
    /\ WF_vars(ConsumeMessage)
    /\ WF_vars(Resume)

(***************************************************************************)
(* The producer.  KafkaProducerContext.send publishes the chunks of a Data *)
(* payload through the producer the context was built with: the one of     *)
(* init, which carries a value_serializer, or one handed to __init__.      *)
(***************************************************************************)
ProducerTopics == Topics
Keys == {None, "1"}
\* The headers argument: not given (None), or a list of pairs.
HeaderLists ==
    {[given |-> FALSE, list |-> <<>>],
     [given |-> TRUE, list |-> <<<<"event_type", "order.update">>>>]}
Items == {"a", "b"}

\* The sequences over Items of length at most n.
RECURSIVE SeqsUpTo(_)
SeqsUpTo(n) ==
    IF n = 0 THEN {<<>>}
    ELSE LET shorter == SeqsUpTo(n - 1)
         IN  shorter \cup {Append(q, x) : q \in {r \in shorter : Len(r) = n - 1}, x \in Items}

Datas ==
    {Data("m")} \cup {DataWithContents("m", contents) : contents \in SeqsUpTo(MaxContents)}

ChunkSizes == {0, 1, 2}

\* The producers a context can hold: value_serializer is "none" for a producer given
\* to __init__ without one, and "m.json" for the producer init builds.
Producers == {[value_serializer |-> v] : v \in {"none", "m.json"}}

\* str.encode('utf-8') and bytes.decode('utf-8').
encode(text) == [bytes |-> text]
decode(value) == value.bytes

\* json.dumps of a dict, and json.loads of the text it gives.
json_dumps(dict) == [json |-> dict]
json_loads_text(text) == text.json

\* chunk.dict(): the fields of the payload that are declared.
dict(data) == [field \in DOMAIN data |-> data[field]]

Min(a, b) == IF a < b THEN a ELSE b

\* Data.chunk(chunk_size): the chunks it yields, and the exception that ends it.
chunk(data, chunk_size) ==
    IF chunk_size > 0
      THEN IF "contents" \notin DOMAIN data
             THEN [err |-> "AttributeError", chunks |-> <<>>]
           ELSE LET n == Len(data.contents)
                    count == (n + chunk_size - 1) \div chunk_size
                IN  [err |-> "none",
                     chunks |->
                       [i \in 1..count |->
                          DataWithContents(
                              data.messages,
                              SubSeq(data.contents, (i - 1) * chunk_size + 1,
                                     Min(i * chunk_size, n)))]]
    ELSE [err |-> "none", chunks |-> <<data>>]

ProducerRecord(topic, key, value, headers) ==
    [topic |-> topic, key |-> key, value |-> value, headers |-> headers]

\* self._producer.send_and_wait(topic, key, value, headers) on a value that is
\* already bytes: a value_serializer m.json(...) raises on it.
send_and_wait(p, topic, key, value, headers) ==
    IF p.value_serializer = "none"
      THEN [err |-> "none", sent |-> <<ProducerRecord(topic, key, value, headers)>>]
    ELSE [err |-> "AttributeError", sent |-> <<>>]

\* KafkaProducerContext.send: the records published and the exception raised.  Every
\* chunk meets the same key and the same producer, so the first chunk raises if any
\* does, and then nothing was published.
send(p, topic, data, key, chunk_size, headers) ==
    LET hs == IF headers.given THEN headers.list ELSE <<>>
        c == chunk(data, chunk_size)
        first == IF key = None THEN [err |-> "AttributeError", sent |-> <<>>]
                 ELSE send_and_wait(p, topic, encode(key),
                                    encode(json_dumps(dict(c.chunks[1]))), hs)
    IN  IF c.err # "none" THEN [err |-> c.err, sent |-> <<>>]
        ELSE IF Len(c.chunks) = 0 THEN [err |-> "none", sent |-> <<>>]
        ELSE IF first.err # "none" THEN first
        ELSE [err |-> "none",
              sent |-> [i \in 1..Len(c.chunks) |->
                          ProducerRecord(topic, encode(key),
                                         encode(json_dumps(dict(c.chunks[i]))), hs)]]

\* One call of send on a context holding producer p.
Send ==
    \E p \in Producers, topic \in ProducerTopics, data \in Datas, key \in Keys,
       chunk_size \in ChunkSizes, headers \in HeaderLists :
        LET r == send(p, topic, data, key, chunk_size, headers)
        IN  /\ producer' = [called |-> TRUE, producer |-> p, topic |-> topic,
                            data |-> data, key |-> key, chunk_size |-> chunk_size,
                            err |-> r.err, sent |-> r.sent]
            /\ UNCHANGED <<dbvars, processing_requests, order_events, sessions,
                           consumer>>

SpecProducer == Init /\ [][Send]_vars

(***************************************************************************)
(* Sums over the tables.                                                   *)
(***************************************************************************)
RECURSIVE Sum(_)
Sum(numbers) == IF numbers = <<>> THEN 0 ELSE Head(numbers) + Sum(Tail(numbers))

Terminal(status) == status \in {"SUCCESS", "CANCELLED"}

\* price x (quantity - filled_quantity) of the non-terminal BUY orders of u
Reserved(u) ==
    Sum([i \in 1..Len(orders) |->
           IF orders[i].user_id = u /\ orders[i].order_type = "BUY"
              /\ ~Terminal(orders[i].status)
             THEN orders[i].price * (orders[i].quantity - orders[i].filled_quantity)
             ELSE 0])

\* total of a column of the fill rows of u's orders of one type
Filled(u, type, column) ==
    Sum([i \in 1..Len(orders) |->
           IF orders[i].user_id = u /\ orders[i].order_type = type
             THEN Sum([k \in 1..Len(transactions[i]) |-> transactions[i][k][column]])
             ELSE 0])

LedgerTotal(u) ==
    Sum([k \in 1..Len(account_transactions[u]) |-> account_transactions[u][k].amount])

(***************************************************************************)
(* C1.  Money is conserved for one owner when there are no deposits and no *)
(* withdrawals: balance + the reservations of the open BUY orders + the    *)
(* execution amount of all BUY fills - the execution amount of all SELL    *)
(* fills is the initial balance, also when a BUY order fills below its     *)
(* limit price.                                                            *)
(***************************************************************************)
C1_Conservation ==
    \A u \in Users :
        balance[u] + Reserved(u) + Filled(u, "BUY", "amount") - Filled(u, "SELL", "amount")
            = InitBalance

(***************************************************************************)
(* C2.  Ledger reconciliation: the signed amounts of an owner's            *)
(* account_transactions rows add up to the current balance minus the       *)
(* initial balance.                                                        *)
(***************************************************************************)
C2_LedgerReconciliation ==
    \A u \in Users : LedgerTotal(u) = balance[u] - InitBalance

(***************************************************************************)
(* C3.  Hold bound: every portfolio row has 0 <= hold_quantity <= quantity *)
(* in every state reached by creating, updating, cancelling and processing *)
(* orders.                                                                 *)
(***************************************************************************)
C3_HoldBound ==
    \A key \in Users \X Stocks :
        /\ 0 <= portfolio[key].hold_quantity
        /\ portfolio[key].hold_quantity <= portfolio[key].quantity

\* A SELL order was filled while another SELL order of the same holding still holds
\* shares, and one of the owner's SELL orders was updated.
C3_Witness ==
    \E i \in 1..Len(orders), j \in 1..Len(orders) :
        /\ orders[i].order_type = "SELL" /\ orders[i].status = "SUCCESS"
        /\ orders[j].order_type = "SELL" /\ orders[j].status = "PENDING"
        /\ portfolio[<<orders[j].user_id, orders[j].stock_id>>].hold_quantity > 0
        /\ \E k \in 1..Len(order_history[j]) : order_history[j][k].note = "Order updated"

(***************************************************************************)
(* C4.  The cash balance of every user is >= 0 in every reachable state,   *)
(* for any interleaving of CreateBuyOrder, UpdateOrder, withdraw,          *)
(* CancelOrder and processing steps, each a session that reads and later   *)
(* writes; the balance a session in flight is about to write is >= 0 too.  *)
(***************************************************************************)
C4_BalanceNonNegative ==
    /\ \A u \in Users : balance[u] >= 0
    /\ \A i \in 1..Len(sessions), u \in Users : sessions[i].write.balance[u] >= 0

\* A withdrawal and a buy order for the whole opening balance were both committed:
\* each passed its balance check on the opening balance, which no serial run allows.
C4_Witness ==
    /\ sessions = <<>>
    /\ \E u \in Users :
         /\ \E k \in 1..Len(account_transactions[u]) :
               account_transactions[u][k].type = "WITHDRAWAL"
         /\ \E oid \in 1..Len(orders) :
               /\ orders[oid].user_id = u /\ orders[oid].order_type = "BUY"
               /\ orders[oid].status = "PENDING"
               /\ orders[oid].total_amount = InitBalance

(***************************************************************************)
(* C5.  Idempotent redelivery: handling a processing request for an order  *)
(* whose status is not PENDING or RETRYING (SUCCESS, CANCELLED, INITIAL,   *)
(* FAILED) raises no error and changes no order, history, transaction,     *)
(* portfolio, balance or ledger row, whatever the price source answers.    *)
(***************************************************************************)
C5_IdempotentRedelivery ==
    \A oid \in OrderIds(DB), row \in PriceRows :
        orders[oid].status \notin {"PENDING", "RETRYING"} =>
            LET r == transaction(DB, process_order(DB, oid, row))
            IN  r.err = "none" /\ r.db = DB /\ r.sent = <<>>

\* One order was filled and another was left in FAILED: both are redelivery cases.
C5_Witness ==
    \E i \in 1..Len(orders), j \in 1..Len(orders) :
        /\ orders[i].status = "SUCCESS" /\ Len(transactions[i]) = 1
        /\ orders[j].status = "FAILED" /\ orders[j].retry_count = 1

C7_ScenarioC ==
    \A oid \in OrderIds(DB) :
        LET o == orders[oid]
            r == transaction(DB, process_order(DB, oid, [found |-> FALSE, current_price |-> 0]))
            o2 == r.db.orders[oid]
        IN  (o.order_type = "BUY" /\ o.status \in {"PENDING", "FAILED"}) =>
              /\ o2.retry_count = o.retry_count + 1
              /\ IF o.retry_count + 1 < 3
                   THEN o2.status = "FAILED" /\ r.db.balance = balance
                   ELSE /\ o2.status = "CANCELLED"
                        /\ r.db.balance[o.user_id] = balance[o.user_id] + o.price * o.quantity

(***************************************************************************)
(* C8.  An order never exists without its processing request: for every    *)
(* order committed by CreateBuyOrder or CreateSellOrder exactly one message*)
(* keyed by the order id was published to orders.processing.requests.      *)
(***************************************************************************)
C8_RequestInFlight ==
    \A oid \in OrderIds(DB) :
        Cardinality({k \in 1..Len(processing_requests) :
                        processing_requests[k].key = oid}) = 1

(***************************************************************************)
(* C10.  A queued order is filled effectively once: an order has one fill  *)
(* row when its status is SUCCESS and none otherwise, however often its    *)
(* request is delivered; the fill moves all of the open quantity in or out *)
(* of the holding and, for a SELL order, credits the balance once, with    *)
(* one SELL_INCOME row; a further delivery changes neither holdings nor    *)
(* balance.                                                                *)
(***************************************************************************)
SellIncomeRows(oid) ==
    LET ledger == account_transactions[orders[oid].user_id]
    IN  Cardinality({k \in 1..Len(ledger) :
                        ledger[k].type = "SELL_INCOME" /\ ledger[k].related_order_id = oid})

C11_Terminal ==
    [][\A oid \in 1..Len(orders) :
          orders[oid].status \in {"SUCCESS", "CANCELLED"} =>
              /\ orders'[oid].status = orders[oid].status
              /\ orders'[oid].price = orders[oid].price
              /\ orders'[oid].quantity = orders[oid].quantity
              /\ orders'[oid].filled_quantity = orders[oid].filled_quantity
              /\ orders'[oid].retry_count = orders[oid].retry_count]_vars

\* A filled order and a cancelled order exist and every operation on them is refused or
\* ignored: the gateway raises, the consumer returns without a write.
C11_Witness ==
    \E i \in 1..Len(orders), j \in 1..Len(orders) :
        /\ orders[i].status = "SUCCESS" /\ orders[j].status = "CANCELLED"
        /\ \A oid \in {i, j} :
             /\ cancel_order(DB, oid, orders[oid].user_id).err = "InvalidOrderError"
             /\ update_order(DB, oid, orders[oid].user_id, {1}, {}).err = "InvalidOrderError"
             /\ reset_order_processing(DB, oid).db = DB
             /\ \A row \in PriceRows : process_order(DB, oid, row).db = DB

(***************************************************************************)
(* C12.  Each unit of work is atomic: at every point at which the process  *)
(* may crash inside a gateway create, cancel or update or inside a         *)
(* processing step (its auto-cancel included), the persisted rows are      *)
(* either the rows before the step or the rows with all of the step's      *)
(* order, history, transaction, portfolio, balance and ledger writes.      *)
(***************************************************************************)
C12_Atomic ==
    \A i \in 1..Len(sessions) :
        \/ DB = sessions[i].read
        \/ DB = sessions[i].write

\* The commit of an auto-cancel or of a nested cancel_order is persisted and the
\* wrapped processing step has not returned yet: a crash here keeps the cancellation.
C12_Witness ==
    /\ Len(sessions) = 1
    /\ sessions[1].commits = <<>>
    /\ DB = sessions[1].write /\ DB # sessions[1].read
    /\ \E oid \in 1..Len(orders) :
         /\ orders[oid].status = "CANCELLED" /\ orders[oid].retry_count = 3
         /\ sessions[1].read.orders[oid].status = "RETRYING"

(***************************************************************************)
(* C13.  For every operation wrapped by the transaction decorator, one     *)
(* called from inside another wrapped operation included (process_order    *)
(* calling cancel_order): while the outermost operation runs no commit is  *)
(* issued, and when it raises none of the writes made since it started is  *)
(* persisted.                                                              *)
(***************************************************************************)
WrappedCalls ==
    {create_buy_order(DB, found, u, s, price, quantity) :
        found \in BOOLEAN, u \in Users, s \in Stocks, price \in Prices,
        quantity \in Quantities}
    \cup {create_sell_order(DB, found, u, s, price, quantity) :
        found \in BOOLEAN, u \in Users, s \in Stocks, price \in Prices,
        quantity \in Quantities}
    \cup {cancel_order(DB, oid, u) : oid \in AnyOrderId, u \in Users}
    \cup {update_order(DB, oid, u, rprice, rquantity) :
        oid \in AnyOrderId, u \in Users, rprice \in Optional(Prices),
        rquantity \in Optional(Quantities)}
    \cup {reset_order_processing(DB, oid) : oid \in AnyOrderId}
    \cup {process_order(DB, oid, row) : oid \in AnyOrderId, row \in PriceRows}
    \cup {OrderService_process_order(DB, oid, row) : oid \in AnyOrderId, row \in PriceRows}

C13_CommitOnlyAtOutermostReturn ==
    \A r \in WrappedCalls :
        /\ r.committed = <<>>
        /\ r.err # "none" => transaction(DB, r).db = DB

(***************************************************************************)
(* C14.  CreateBuyOrder(owner, security, price, quantity): with an         *)
(* inactive security or no price snapshot it fails with the invalid-       *)
(* security error, with balance < price x quantity it fails with the       *)
(* insufficient-funds error, both leaving all state unchanged; otherwise   *)
(* it creates one order (PENDING, filled_quantity 0, retry_count 0,        *)
(* total_amount = price x quantity), appends the history rows none ->      *)
(* INITIAL and INITIAL -> PENDING, and decreases the balance by price x    *)
(* quantity with one ORDER_PAYMENT ledger entry.                           *)
(***************************************************************************)
C14_CreateBuyOrder ==
    \A found \in BOOLEAN, u \in Users, s \in Stocks, price \in Prices, quantity \in Quantities :
        LET r == transaction(DB, create_buy_order(DB, found, u, s, price, quantity))
            oid == Len(orders) + 1
            ledger == r.db.account_transactions[u]
        IN  IF ~found
              THEN r.err = "InvalidStockError" /\ r.db = DB
            ELSE IF balance[u] < price * quantity
              THEN r.err = "InsufficientBalanceError" /\ r.db = DB
            ELSE /\ r.err = "none"
                 /\ Len(r.db.orders) = oid
                 /\ \A k \in 1..Len(orders) : r.db.orders[k] = orders[k]
                 /\ r.db.orders[oid] =
                      [user_id |-> u, stock_id |-> s, order_type |-> "BUY",
                       status |-> "PENDING", price |-> price, quantity |-> quantity,
                       filled_quantity |-> 0, total_amount |-> price * quantity,
                       retry_count |-> 0]
                 /\ [k \in 1..Len(r.db.order_history[oid]) |->
                        <<r.db.order_history[oid][k].previous_status,
                          r.db.order_history[oid][k].current_status>>]
                      = << <<"NONE", "INITIAL">>, <<"INITIAL", "PENDING">> >>
                 /\ r.db.balance[u] = balance[u] - price * quantity
                 /\ r.db.portfolio = portfolio
                 /\ Len(ledger) = Len(account_transactions[u]) + 1
                 /\ ledger[Len(ledger)].type = "ORDER_PAYMENT"
                 /\ ledger[Len(ledger)].amount = 0 - price * quantity

(***************************************************************************)
(* C15.  CreateSellOrder(owner, security, price, quantity) on a valid      *)
(* security: with no portfolio row or quantity - hold_quantity < quantity  *)
(* asked it fails with the insufficient-holdings error and changes         *)
(* nothing; otherwise it creates one PENDING order, increases              *)
(* hold_quantity by exactly the quantity, and leaves the owner's balance   *)
(* and the portfolio's quantity unchanged.                                 *)
(***************************************************************************)
C15_CreateSellOrder ==
    \A u \in Users, s \in Stocks, price \in Prices, quantity \in Quantities :
        LET r == transaction(DB, create_sell_order(DB, TRUE, u, s, price, quantity))
            oid == Len(orders) + 1
            p == portfolio[<<u, s>>]
            p2 == r.db.portfolio[<<u, s>>]
        IN  IF ~p.present \/ p.quantity - p.hold_quantity < quantity
              THEN r.err = "InsufficientStockError" /\ r.db = DB
            ELSE /\ r.err = "none"
                 /\ Len(r.db.orders) = oid
                 /\ \A k \in 1..Len(orders) : r.db.orders[k] = orders[k]
                 /\ r.db.orders[oid].status = "PENDING"
                 /\ r.db.orders[oid].order_type = "SELL"
                 /\ r.db.orders[oid].quantity = quantity
                 /\ r.db.orders[oid].filled_quantity = 0
                 /\ p2.hold_quantity = p.hold_quantity + quantity
                 /\ p2.quantity = p.quantity
                 /\ r.db.balance = balance
                 /\ r.db.account_transactions = account_transactions

\* A sell order holds one of two shares, so a further sell order of one share is
\* accepted and one of two shares is refused.
C15_Witness ==
    \E oid \in 1..Len(orders) :
        LET o == orders[oid]
            p == portfolio[<<o.user_id, o.stock_id>>]
        IN  /\ o.order_type = "SELL" /\ o.status = "PENDING" /\ Len(order_history[oid]) = 2
            /\ p.quantity = 2 /\ p.hold_quantity = 1 /\ o.quantity = 1
            /\ create_sell_order(DB, TRUE, o.user_id, o.stock_id, 1, 1).err = "none"
            /\ create_sell_order(DB, TRUE, o.user_id, o.stock_id, 1, 2).err
                 = "InsufficientStockError"

(***************************************************************************)
(* C16.  CancelOrder on a BUY order in INITIAL, PENDING, FAILED or         *)
(* RETRYING sets the status to CANCELLED, appends one history row and      *)
(* increases the owner's balance by price x (quantity - filled_quantity)   *)
(* with one ORDER_REFUND ledger entry; a second CancelOrder on the order   *)
(* fails with the invalid-state error and changes nothing.                 *)
(***************************************************************************)
C16_CancelBuyOrder ==
    \A oid \in OrderIds(DB) :
        LET o == orders[oid]
            u == o.user_id
            r == transaction(DB, cancel_order(DB, oid, u))
            again == transaction(r.db, cancel_order(r.db, oid, u))
            ledger == r.db.account_transactions[u]
        IN  (o.order_type = "BUY" /\ o.status \in {"INITIAL", "PENDING", "FAILED", "RETRYING"}) =>
              /\ r.err = "none"
              /\ r.db.orders[oid].status = "CANCELLED"
              /\ Len(r.db.order_history[oid]) = Len(order_history[oid]) + 1
              /\ r.db.balance[u] = balance[u] + o.price * (o.quantity - o.filled_quantity)
              /\ again.err = "InvalidOrderError" /\ again.db = r.db
              /\ again.message = "Order cannot be cancelled in its current state"
              /\ Len(ledger) = Len(account_transactions[u]) + 1
              /\ ledger[Len(ledger)].type = "ORDER_REFUND"
              /\ ledger[Len(ledger)].amount = o.price * (o.quantity - o.filled_quantity)

(***************************************************************************)
(* C17.  Every step that takes a SELL order to CANCELLED, the user's       *)
(* cancellation and the auto-cancellation after the retry limit alike,     *)
(* decreases the hold_quantity of the owner's portfolio row by exactly     *)
(* quantity - filled_quantity of the order: no SELL order becomes          *)
(* CANCELLED with its hold left in place.                                  *)
(***************************************************************************)
C17_SellCancelReleasesHold ==
    [][\A oid \in 1..Len(orders) :
          LET o == orders[oid]
              k == <<o.user_id, o.stock_id>>
          IN  (o.order_type = "SELL" /\ o.status # "CANCELLED"
                 /\ orders'[oid].status = "CANCELLED") =>
                portfolio'[k].hold_quantity =
                    portfolio[k].hold_quantity - (o.quantity - o.filled_quantity)]_vars

\* A SELL order cancelled at the retry limit next to an open SELL order on the
\* same portfolio row: what stays on hold is the open order's quantity.
C17_Witness ==
    \E i \in 1..Len(orders), j \in 1..Len(orders) :
        /\ orders[j].order_type = "SELL" /\ orders[j].status = "CANCELLED"
        /\ orders[j].retry_count = MaxRetry
        /\ orders[i].order_type = "SELL" /\ orders[i].status = "PENDING"
        /\ orders[i].stock_id = orders[j].stock_id /\ orders[i].user_id = orders[j].user_id
        /\ portfolio[<<orders[i].user_id, orders[i].stock_id>>].hold_quantity
             = orders[i].quantity

(***************************************************************************)
(* C18.  CancelOrder and UpdateOrder called with an order id that does not *)
(* exist, or by a caller other than the order's owner, fail with the       *)
(* not-found error and leave the order and all balances and holdings       *)
(* unchanged.                                                              *)
(***************************************************************************)
C18_NotFoundOrNotOwned ==
    \A oid \in AnyOrderId \cup {Len(orders) + 1}, u \in Callers :
        (oid \notin OrderIds(DB) \/ orders[oid].user_id # u) =>
            /\ LET r == transaction(DB, cancel_order(DB, oid, u))
               IN  /\ r.err = "InvalidOrderError" /\ r.db = DB
                   /\ r.message = "Order not found or not owned by user"
            /\ \A rprice \in Optional(Prices), rquantity \in Optional(Quantities) :
                 LET r == transaction(DB, update_order(DB, oid, u, rprice, rquantity))
                 IN  /\ r.err = "InvalidOrderError" /\ r.db = DB
                     /\ r.message = "Order not found or not owned by user"

\* An open order of u1 that u1 can cancel and update, while caller u0 cannot, and
\* the next order id does not exist yet.
C18_Witness ==
    /\ Len(orders) = 1 /\ orders[1].status = "PENDING" /\ orders[1].user_id = "u1"
    /\ cancel_order(DB, 1, "u1").err = "none"
    /\ update_order(DB, 1, "u1", {2}, {}).err = "none"
    /\ cancel_order(DB, 1, "u0").err = "InvalidOrderError"
    /\ update_order(DB, 1, "u0", {2}, {}).err = "InvalidOrderError"
    /\ cancel_order(DB, 2, "u1").err = "InvalidOrderError"
    /\ update_order(DB, 2, "u1", {2}, {}).err = "InvalidOrderError"

(***************************************************************************)
(* C19.  UpdateOrder by the owner fails and changes nothing when the       *)
(* order's status is SUCCESS or CANCELLED or its filled_quantity is above  *)
(* 0 (also checked on the order rows with a partial fill written in); it   *)
(* is accepted only in INITIAL, PENDING, FAILED or RETRYING with           *)
(* filled_quantity 0, and an accepted update changes neither the status    *)
(* nor filled_quantity.                                                    *)
(***************************************************************************)
C19_UpdateGuards ==
    \A oid \in OrderIds(DB), rprice \in Optional(Prices), rquantity \in Optional(Quantities) :
        LET o == orders[oid]
            r == transaction(DB, update_order(DB, oid, o.user_id, rprice, rquantity))
        IN  /\ (o.status \in {"SUCCESS", "CANCELLED"} \/ o.filled_quantity > 0) =>
                  /\ r.err = "InvalidOrderError" /\ r.db = DB
                  /\ r.message = "Order cannot be updated in its current state"
            /\ r.err = "none" =>
                  /\ o.status \in {"INITIAL", "PENDING", "FAILED", "RETRYING"}
                  /\ o.filled_quantity = 0
                  /\ r.db.orders[oid].status = o.status
                  /\ r.db.orders[oid].filled_quantity = 0
            /\ \A filled \in 1..o.quantity :
                  LET partial == [DB EXCEPT !.orders[oid].filled_quantity = filled]
                      q == transaction(partial,
                               update_order(partial, oid, o.user_id, rprice, rquantity))
                  IN  /\ q.err = "InvalidOrderError" /\ q.db = partial
                      /\ q.message =
                           IF Updatable(o.status)
                             THEN "Order with partial fills cannot be updated"
                             ELSE "Order cannot be updated in its current state"

\* An order updated while FAILED, next to a CANCELLED order that refuses the
\* update.
C19_Witness ==
    \E i \in 1..Len(orders), j \in 1..Len(orders) :
        /\ orders[i].status = "FAILED"
        /\ \E k \in 1..Len(order_history[i]) :
             order_history[i][k] = OrderHistory("FAILED", "FAILED", "Order updated")
        /\ orders[j].status = "CANCELLED" /\ orders[j].filled_quantity = 0
        /\ update_order(DB, j, orders[j].user_id, {1}, {}).err = "InvalidOrderError"
        /\ update_order(DB, i, orders[i].user_id, {1}, {}).err = "none"

(***************************************************************************)
(* C20.  UpdateOrder on an open BUY order to price p' and quantity q':     *)
(* when p' x q' exceeds the old total_amount by more than the owner's      *)
(* balance it fails with the insufficient-funds error and changes nothing; *)
(* otherwise total_amount becomes p' x q' and the balance changes by       *)
(* exactly old total_amount - p' x q'.  The amount reserved by an open BUY *)
(* order is price x quantity = total_amount, and a CancelOrder after the   *)
(* update refunds exactly that amount.                                     *)
(***************************************************************************)
C20_UpdateBuyOrder ==
    \A oid \in OrderIds(DB) :
        LET o == orders[oid]
            u == o.user_id
        IN  (o.order_type = "BUY" /\ Updatable(o.status) /\ o.filled_quantity = 0) =>
              /\ o.total_amount = o.price * o.quantity
              /\ \A rprice \in Optional(Prices), rquantity \in Optional(Quantities) :
                   LET p2 == IF rprice # {} THEN Only(rprice) ELSE o.price
                       q2 == IF rquantity # {} THEN Only(rquantity) ELSE o.quantity
                       r == transaction(DB, update_order(DB, oid, u, rprice, rquantity))
                       c == transaction(r.db, cancel_order(r.db, oid, u))
                   IN  IF p2 * q2 - o.total_amount > balance[u]
                         THEN r.err = "InsufficientBalanceError" /\ r.db = DB
                       ELSE /\ r.err = "none"
                            /\ r.db.orders[oid].total_amount = p2 * q2
                            /\ r.db.orders[oid].price = p2
                            /\ r.db.orders[oid].quantity = q2
                            /\ r.db.balance[u] = balance[u] + o.total_amount - p2 * q2
                            /\ c.err = "none"
                            /\ c.db.balance[u] = r.db.balance[u] + p2 * q2
                            /\ c.db.balance[u] = balance[u] + o.total_amount

\* A BUY order was updated to a smaller total and then cancelled: everything
\* reserved has come back.
C20_Witness ==
    \E oid \in 1..Len(orders) :
        LET o == orders[oid]
        IN  /\ o.order_type = "BUY" /\ o.status = "CANCELLED" /\ Len(orders) = 1
            /\ \E k \in 1..Len(order_history[oid]) :
                 order_history[oid][k].note = "Order updated"
            /\ Len(order_history[oid]) = 4
            /\ balance[o.user_id] = InitBalance

(***************************************************************************)
(* C21.  UpdateOrder on an open SELL order changing the quantity from q to *)
(* q': when q' > q and portfolio.quantity - hold_quantity + q < q' it      *)
(* fails with the insufficient-holdings error and changes nothing;         *)
(* otherwise the portfolio's hold_quantity changes by exactly q' - q, for  *)
(* increases and for decreases alike.                                      *)
(***************************************************************************)
C21_UpdateSellOrder ==
    \A oid \in OrderIds(DB), rprice \in Optional(Prices), q2 \in Quantities :
        LET o == orders[oid]
            key == <<o.user_id, o.stock_id>>
            p == portfolio[key]
            r == transaction(DB, update_order(DB, oid, o.user_id, rprice, {q2}))
        IN  (o.order_type = "SELL" /\ Updatable(o.status) /\ o.filled_quantity = 0) =>
              IF q2 > o.quantity /\ p.quantity - p.hold_quantity + o.quantity < q2
                THEN r.err = "InsufficientStockError" /\ r.db = DB
                ELSE /\ r.err = "none"
                     /\ r.db.orders[oid].quantity = q2
                     /\ r.db.portfolio[key].hold_quantity
                          = p.hold_quantity + (q2 - o.quantity)

(***************************************************************************)
(* C22.  Every successful CancelOrder hands exactly one order.cancel event *)
(* and every successful UpdateOrder exactly one order.update event to the  *)
(* producer for orders.events, keyed by the order id; a failed cancel or   *)
(* update publishes nothing.                                               *)
(***************************************************************************)
C22_LifecycleEvents ==
    \A oid \in AnyOrderId, u \in Callers :
        /\ LET r == transaction(DB, cancel_order(DB, oid, u))
           IN  IF r.err = "none"
                 THEN /\ Len(r.sent) = 1
                      /\ r.sent[1].event_type = "order.cancel"
                      /\ r.sent[1].key = oid
                 ELSE r.sent = <<>>
        /\ \A rprice \in Optional(Prices), rquantity \in Optional(Quantities) :
             LET r == transaction(DB, update_order(DB, oid, u, rprice, rquantity))
             IN  IF r.err = "none"
                   THEN /\ Len(r.sent) = 1
                        /\ r.sent[1].event_type = "order.update"
                        /\ r.sent[1].key = oid
                   ELSE r.sent = <<>>

(***************************************************************************)
(* C23.  A processing step on a PENDING or RETRYING BUY order fills it if  *)
(* and only if a price snapshot exists and limit price >= market price.    *)
(* The fill writes one Transaction with price = market price and quantity  *)
(* = quantity - filled_quantity, sets filled_quantity = quantity and       *)
(* status SUCCESS, and increases portfolio.quantity by the matched         *)
(* quantity: a first buy creates the row with avg_purchase_price = market  *)
(* price, a later one sets avg_purchase_price = (old total_purchase_amount *)
(* + execution amount) / (old quantity + matched quantity).  When limit    *)
(* price = market price the balance and the ledger are left alone.         *)
(***************************************************************************)
C23_BuyFill ==
    \A oid \in OrderIds(DB), row \in PriceRows :
        LET o == orders[oid]
            u == o.user_id
            key == <<u, o.stock_id>>
            p == portfolio[key]
            r == transaction(DB, process_order(DB, oid, row))
            o2 == r.db.orders[oid]
            p2 == r.db.portfolio[key]
            matched == o.quantity - o.filled_quantity
            amount == row.current_price * matched
            fills == r.db.transactions[oid]
        IN  (o.order_type = "BUY" /\ o.status \in {"PENDING", "RETRYING"}) =>
              IF row.found /\ o.price >= row.current_price
                THEN /\ r.err = "none"
                     /\ Len(fills) = Len(transactions[oid]) + 1
                     /\ fills[Len(fills)].price = row.current_price
                     /\ fills[Len(fills)].quantity = matched
                     /\ fills[Len(fills)].transaction_type = "BUY"
                     /\ o2.filled_quantity = o.quantity /\ o2.status = "SUCCESS"
                     /\ p2.present /\ p2.quantity = p.quantity + matched
                     /\ p2.hold_quantity = p.hold_quantity
                     /\ p2.avg_purchase_price =
                          IF ~p.present THEN Quotient(row.current_price, 1)
                          ELSE Quotient(p.total_purchase_amount + amount,
                                        p.quantity + matched)
                     /\ o.price = row.current_price =>
                          /\ r.db.balance = balance
                          /\ r.db.account_transactions = account_transactions
                ELSE /\ o2.status # "SUCCESS" /\ o2.filled_quantity = o.filled_quantity
                     /\ fills = transactions[oid]
                     /\ p2 = p

\* Two buy orders filled on a portfolio that had no row: the first buy at 1 created
\* it, the second at 2 raised the average to 3/2.
C23_Witness ==
    /\ Len(orders) = 2
    /\ \A oid \in 1..2 :
         /\ orders[oid].order_type = "BUY" /\ orders[oid].status = "SUCCESS"
         /\ orders[oid].quantity = 1 /\ orders[oid].stock_id = "s1"
         /\ orders[oid].user_id = "u1"
    /\ transactions[1][1].price = 1 /\ transactions[2][1].price = 2
    /\ portfolio[<<"u1", "s1">>].quantity = 2
    /\ portfolio[<<"u1", "s1">>].avg_purchase_price = <<3, 2>>

C26_NoAckPastFailure ==
    consumer.pc = "consuming" =>
        \A t1 \in Topics, row1 \in PriceRows, storage1 \in BOOLEAN :
            consumer.position[t1] < Len(Log(t1)) =>
                LET offset == consumer.position[t1]
                    first == run_iteration(consumer, DB, t1, row1, storage1)
                IN  first.caught \notin {"none", "JSONDecodeError"} =>
                      /\ first.consumer.committed = consumer.committed
                      /\ \A t2 \in Topics, row2 \in PriceRows, storage2 \in BOOLEAN :
                           first.consumer.position[t2] < Len(Log(t2)) =>
                               run_iteration(first.consumer, first.db, t2, row2, storage2)
                                   .consumer.committed[t1] <= offset

(***************************************************************************)
(* C27.  A message whose payload cannot be decoded as JSON is acknowledged *)
(* (its offset is committed) and dropped: no handler is called, no order,  *)
(* balance or portfolio row changes, and the consumer goes on with the     *)
(* next message.                                                           *)
(***************************************************************************)
C27_MalformedDropped ==
    consumer.pc = "consuming" =>
        \A t \in Topics, row \in PriceRows, storage \in BOOLEAN :
            (/\ consumer.position[t] < Len(Log(t))
             /\ Log(t)[consumer.position[t] + 1].value.kind # "json") =>
                LET pass == run_iteration(consumer, DB, t, row, storage)
                IN  /\ pass.handler = "none"
                    /\ pass.db = DB
                    /\ pass.consumer.pc = "consuming"
                    /\ pass.consumer.position[t] = consumer.position[t] + 1
                    /\ pass.consumer.committed[t] = consumer.position[t] + 1

C29_PublishOrder ==
    \A i \in 1..Len(processing_requests), j \in 1..Len(order_events) :
        LET request == processing_requests[i]
            event == order_events[j]
            handled_request == consumer.position["orders.processing.requests"] >= i
            handled_event == consumer.position["orders.events"] >= j
        IN  (/\ request.value.kind = "json" /\ event.value.kind = "json"
             /\ request.value.order_id = event.value.order_id) =>
                /\ (request.seq < event.seq /\ handled_event) => handled_request
                /\ (event.seq < request.seq /\ handled_request) => handled_event

(***************************************************************************)
(* C30.  The history of every order is a consistent chain: the first row   *)
(* has previous_status none and current_status INITIAL, every later row's  *)
(* previous_status is the status the order had before the recorded change, *)
(* that is the current_status of the row before it, and the last row's     *)
(* current_status is the order's status.                                   *)
(***************************************************************************)
C30_HistoryChain ==
    \A oid \in 1..Len(orders) :
        LET h == order_history[oid]
        IN  /\ Len(h) >= 1
            /\ h[1].previous_status = "NONE" /\ h[1].current_status = "INITIAL"
            /\ \A k \in 2..Len(h) : h[k].previous_status = h[k - 1].current_status
            /\ h[Len(h)].current_status = orders[oid].status

(***************************************************************************)
(* C31.  A call of send with a key publishes exactly one message for each  *)
(* chunk that data.chunk(chunk_size) yields, in the order of the chunks,   *)
(* each on the given topic, under the given key and with the dict of its   *)
(* chunk as value: one message for a payload that is not chunked, three    *)
(* for a payload that yields three chunks.                                 *)
(***************************************************************************)
C31_OneMessagePerChunk ==
    LET c == chunk(producer.data, producer.chunk_size)
    IN  (producer.called /\ producer.key # None /\ c.err = "none") =>
            /\ producer.err = "none"
            /\ Len(producer.sent) = Len(c.chunks)
            /\ producer.chunk_size <= 0 => Len(producer.sent) = 1
            /\ \A i \in 1..Len(c.chunks) :
                   i <= Len(producer.sent) =>
                       /\ producer.sent[i].topic = producer.topic
                       /\ decode(producer.sent[i].key) = producer.key
                       /\ json_loads_text(decode(producer.sent[i].value))
                              = dict(c.chunks[i])

(***************************************************************************)
(* C32.  A call of send without a key raises no error and publishes        *)
(* exactly one message, whose key is None.                                 *)
(***************************************************************************)
C32_SendWithoutKey ==
    (/\ producer.called /\ producer.key = None
     /\ Len(chunk(producer.data, producer.chunk_size).chunks) = 1) =>
        /\ producer.err = "none"
        /\ Len(producer.sent) = 1
        /\ producer.sent[1].key = None

(***************************************************************************)
(* C33.  The two implementations of the processing step are equivalent:    *)
(* for every order id and every price snapshot, present or absent,         *)
(* OrderService.process_order and KafkaConsumerContext.process_order leave *)
(* the same order status, retry_count and filled_quantity, the same        *)
(* balances, the same portfolio quantity and hold_quantity, the same       *)
(* Transaction, history and ledger rows, and both raise or both return.    *)
(***************************************************************************)
C33_SameProcessing ==
    \A oid \in AnyOrderId, row \in PriceRows :
        LET consumed == transaction(DB, process_order(DB, oid, row))
            served == transaction(DB, OrderService_process_order(DB, oid, row))
        IN  /\ (consumed.err = "none") <=> (served.err = "none")
            /\ Len(consumed.db.orders) = Len(served.db.orders)
            /\ \A i \in 1..Len(consumed.db.orders) :
                   /\ consumed.db.orders[i].status = served.db.orders[i].status
                   /\ consumed.db.orders[i].retry_count = served.db.orders[i].retry_count
                   /\ consumed.db.orders[i].filled_quantity
                          = served.db.orders[i].filled_quantity
            /\ consumed.db.balance = served.db.balance
            /\ \A k \in DOMAIN portfolio :
                   /\ consumed.db.portfolio[k].quantity = served.db.portfolio[k].quantity
                   /\ consumed.db.portfolio[k].hold_quantity
                          = served.db.portfolio[k].hold_quantity
            /\ consumed.db.transactions = served.db.transactions
            /\ consumed.db.order_history = served.db.order_history
            /\ consumed.db.account_transactions = served.db.account_transactions

(***************************************************************************)
(* C34.  Handling a message of orders.events whose event_type header is    *)
(* order.cancel, or is neither order.cancel nor order.update, or is        *)
(* missing, changes no order, history, balance, ledger or portfolio record *)
(* and acknowledges the message; the header alone selects the handler.     *)
(***************************************************************************)
C34_CancelEventNoOp ==
    LET t == "orders.events"
    IN  (consumer.pc = "consuming" /\ consumer.position[t] < Len(order_events)) =>
            LET message == order_events[consumer.position[t] + 1]
            IN  \A row \in PriceRows, storage \in BOOLEAN :
                    LET pass == run_iteration(consumer, DB, t, row, storage)
                    IN  /\ (message.value.kind = "json"
                              /\ message.event_type # "order.update") =>
                               /\ pass.db = DB
                               /\ pass.caught = "none"
                               /\ pass.consumer.pc = "consuming"
                               /\ pass.consumer.committed[t] = consumer.position[t] + 1
                               /\ pass.handler =
                                      IF message.event_type = "order.cancel"
                                        THEN "handle_cancel_event" ELSE "none"
                        /\ (message.value.kind = "json"
                              /\ message.event_type = "order.update") =>
                               pass.handler = "handle_update_event"

\* An order.cancel event and an event without a header, both for an open order, have
\* been handled and committed.
C34_Witness ==
    /\ Len(order_events) = 2
    /\ order_events[1].event_type = "order.cancel" /\ order_events[2].event_type = ""
    /\ \A i \in 1..2 : order_events[i].value = [kind |-> "json", order_id |-> 1]
    /\ consumer.committed["orders.events"] = 2
    /\ Len(orders) = 1 /\ orders[1].status = "PENDING"
    /\ Len(order_history[1]) = 2

(***************************************************************************)
(* C35.  A CancelOrder of the gateway and a processing step of the         *)
(* consumer for the same order, each a session that reads and later        *)
(* writes, never both take effect: no order has both a fill (a Transaction *)
(* row, its history row to SUCCESS) and a cancellation (its history row to *)
(* CANCELLED), so no BUY order is both refunded and filled into holdings   *)
(* and no SELL order has its hold released and its shares sold.            *)
(***************************************************************************)
C35_CancelOrFill ==
    \A oid \in 1..Len(orders) :
        LET filled ==
              \/ Len(transactions[oid]) > 0
              \/ \E k \in 1..Len(order_history[oid]) :
                     order_history[oid][k].current_status = "SUCCESS"
            cancelled ==
              \E k \in 1..Len(order_history[oid]) :
                  order_history[oid][k].current_status = "CANCELLED"
        IN  ~(filled /\ cancelled)

(***************************************************************************)
(* C36.  Every order committed in PENDING eventually reaches SUCCESS or    *)
(* CANCELLED without a further call of the client, when the consumer is    *)
(* scheduled fairly and every published message is delivered.              *)
(***************************************************************************)
C36_PendingSettles ==
    \A oid \in 1..MaxConsumerOrders :
        (Len(orders) >= oid /\ orders[oid].status = "PENDING")
            ~> (Len(orders) >= oid /\ orders[oid].status \in {"SUCCESS", "CANCELLED"})

C39_HoldIsOutstandingSells ==
    \A key \in Users \X Stocks :
        portfolio[key].hold_quantity =
            Sum([i \in 1..Len(orders) |->
                   IF /\ orders[i].user_id = key[1] /\ orders[i].stock_id = key[2]
                      /\ orders[i].order_type = "SELL" /\ ~Terminal(orders[i].status)
                     THEN orders[i].quantity - orders[i].filled_quantity
                     ELSE 0])

(***************************************************************************)
(* C40.  If the auto-cancel inside a processing step fails, the order,     *)
(* the balance and the hold are left as they were before the step, and the *)
(* step raises, so that the request is not acknowledged and is handled     *)
(* again on redelivery: the failure is not swallowed.                      *)
(***************************************************************************)
C40_FailedAutoCancelNotAcked ==
    \A oid \in OrderIds(DB), row \in PriceRows :
        LET o == orders[oid]
            third == /\ Processable(o.status)
                     /\ RetryExhausted(o.retry_count + 1)
                     /\ ~row.found \/ ~Eligible(o, row.current_price)
            step == transaction(DB, process_order_step(DB, oid, row, TRUE))
        IN  third => (step.db = DB /\ step.err # "none")

=============================================================================
